---- MODULE Spec2Model ----
(***************************************************************************)
(* Model of search_engine.py: the substring index of a line-oriented text  *)
(* file.  ParseStore.parse_and_insert expands every token of every line    *)
(* into its substrings, inserts them in a nested-dict trie and flushes the *)
(* trie to shelve files ("shards"); ParseStore.search descends every shard *)
(* and unions the line sets found.                                         *)
(*                                                                         *)
(* A Python string is a sequence of one-character strings.  A trie (the    *)
(* nested dict temp_dict, or a shelf on disk) is the record                *)
(*   [dicts |-> the paths below the root at which a dict sits,             *)
(*    sets  |-> a function from the paths at which a set sits to that set] *)
(* so that the node reached by key "_" can be either a dict (made by       *)
(* walking the character "_") or a set (made as the FINISH_MARKER), as in  *)
(* the code, where the marker and the data share the key space.            *)
(***************************************************************************)
EXTENDS Integers, Sequences, FiniteSets, TLC

\* ------------------------------------------------------------ constants
\* FINISH_MARKER = "_"
FINISH_MARKER == "_"

\* the literal of `count % 100`
BatchSize == 100

\* ------------------------------------------------------------ bounds
\* longest query typed at the prompt
MaxQueryLen == 3
\* the short input files hold a run of at most MaxShort equal lines
MaxShort == 1
\* the run of equal lines is at most BatchSize + MaxOver lines long
MaxOver == 1
\* calls of manage_datastore in one behaviour
MaxPrepares == 2

\* ------------------------------------------------------------ strings
\* what str.strip() removes (the line terminator is not modelled)
Whitespace == {" ", "\t"}

RECURSIVE LStrip(_)
LStrip(s) ==
  IF s = <<>> THEN s
  ELSE IF Head(s) \in Whitespace THEN LStrip(Tail(s)) ELSE s

RECURSIVE RStrip(_)
RStrip(s) ==
  IF s = <<>> THEN s
  ELSE IF s[Len(s)] \in Whitespace THEN RStrip(SubSeq(s, 1, Len(s) - 1)) ELSE s

\* line.strip()
Strip(s) == RStrip(LStrip(s))

\* index of the first " " of s from position i on, 0 when there is none
RECURSIVE FirstSpace(_, _)
FirstSpace(s, i) ==
  IF i > Len(s) THEN 0
  ELSE IF s[i] = " " THEN i ELSE FirstSpace(s, i + 1)

\* line.split(' '): the pieces between single spaces, empty pieces kept
RECURSIVE Split(_)
Split(s) ==
  LET i == FirstSpace(s, 1)
  IN  IF i = 0 THEN <<s>>
      ELSE <<SubSeq(s, 1, i - 1)>> \o Split(SubSeq(s, i + 1, Len(s)))

\* generate_substrings, in the order of its two loops
RECURSIVE SubstringsFrom(_, _, _)
SubstringsFrom(strng, start, end) ==
  IF start > Len(strng) THEN <<>>
  ELSE IF end > Len(strng) THEN SubstringsFrom(strng, start + 1, start + 1)
  ELSE <<SubSeq(strng, start, end)>> \o SubstringsFrom(strng, start, end + 1)

\* generate_substrings with strng[start:end] in place of strng[start:end+1]
generate_substrings_short(strng) ==
  SubstringsFrom(SubSeq(strng, 1, Len(strng) - 1), 1, 1)

generate_substrings(strng) == SubstringsFrom(strng, 1, 1)

\* ------------------------------------------------------------ trie
\* what sits at path p: the root is always a dict (temp_dict, or the shelf)
NodeKind(t, p) ==
  IF p = <<>> \/ p \in t.dicts THEN "dict"
  ELSE IF p \in DOMAIN t.sets THEN "set"
  ELSE "none"

\* the keys of the dict at path p
Keys(t, p) ==
  {q[Len(q)] : q \in {r \in t.dicts \cup DOMAIN t.sets :
                        Len(r) = Len(p) + 1 /\ SubSeq(r, 1, Len(p)) = p}}

\* make_trie's inner loop and its two last lines, for one word, from position
\* i at node cur.  err records the AttributeError of calling setdefault on a
\* set or add on a dict; the nodes made before it stay made.
RECURSIVE InsertWord(_, _, _, _, _)
InsertWord(t, word, i, cur, parent_string) ==
  IF t.err THEN t
  ELSE IF NodeKind(t, cur) = "set" THEN [t EXCEPT !.err = TRUE]
  ELSE IF i <= Len(word) THEN
    LET child == Append(cur, word[i])
        t1 == IF NodeKind(t, child) = "none"
              THEN [t EXCEPT !.dicts = @ \cup {child}] ELSE t
    IN  InsertWord(t1, word, i + 1, child, parent_string)
  ELSE
    LET leaf == Append(cur, FINISH_MARKER)
    IN  CASE NodeKind(t, leaf) = "none" ->
               [t EXCEPT !.sets = (leaf :> {parent_string}) @@ @]
          [] NodeKind(t, leaf) = "set" ->
               [t EXCEPT !.sets[leaf] = @ \cup {parent_string}]
          [] OTHER -> [t EXCEPT !.err = TRUE]

\* make_trie(words, parent_string, file_db)
RECURSIVE make_trie(_, _, _)
make_trie(words, parent_string, file_db) ==
  IF words = <<>> \/ file_db.err THEN file_db
  ELSE make_trie(Tail(words), parent_string,
                 InsertWord(file_db, Head(words), 1, <<>>, parent_string))

\* search_trie(word, current), from position i at node cur.  The value is what
\* result_set.update() receives: the list [] , a set of lines, the keys of a
\* dict, or the TypeError of subscripting a set.
RECURSIVE SearchFrom(_, _, _, _)
SearchFrom(t, word, i, cur) ==
  LET key == IF i <= Len(word) THEN word[i] ELSE FINISH_MARKER
      next == Append(cur, key)
  IN  IF NodeKind(t, cur) = "set"
      THEN IF <<key>> \in t.sets[cur]
           THEN [raised |-> TRUE, lines |-> {}]
           ELSE [raised |-> FALSE, lines |-> {}]
      ELSE IF NodeKind(t, next) = "none" THEN [raised |-> FALSE, lines |-> {}]
      ELSE IF i <= Len(word) THEN SearchFrom(t, word, i + 1, next)
      ELSE IF NodeKind(t, next) = "set"
           THEN [raised |-> FALSE, lines |-> t.sets[next]]
           ELSE [raised |-> FALSE, lines |-> {<<k>> : k \in Keys(t, next)}]

search_trie(word, current) == SearchFrom(current, word, 1, <<>>)

\* ------------------------------------------------------------ input
\* The input file is a run of n equal lines with at most one other line
\* before or after it: long enough to cross the flush boundary, small enough
\* to enumerate.  The other line has several strings, white space around it
\* and an empty string between two spaces; or is blank; or has a string with
\* the marker character in it.
ExtraLines ==
  { <<"\t", "a", "a", " ", " ", "a", " ">>,
    <<" ">>,
    <<"_", "a">>,
    <<"a", "_">> }

FillLines == { <<"a">>, <<"a", "a", " ", "a">> }

FillCounts == (0 .. MaxShort) \cup (BatchSize .. BatchSize + MaxOver)

SeqsUpTo(S, k) == UNION {[1..m -> S] : m \in 0..k}

Files ==
  { f \in [pre : SeqsUpTo(ExtraLines, 1), fill : FillLines, n : FillCounts,
           suf : SeqsUpTo(ExtraLines, 1)] :
      /\ f.pre = <<>> \/ f.suf = <<>>
      /\ f.n = 0 => f.fill = <<"a">> /\ f.pre = <<>> }

FileLen(f) == Len(f.pre) + f.n + Len(f.suf)

\* the i-th line of the file, as `for line in fp` yields it (no terminator)
FileLine(f, i) ==
  IF i <= Len(f.pre) THEN f.pre[i]
  ELSE IF i <= Len(f.pre) + f.n THEN f.fill
  ELSE f.suf[i - Len(f.pre) - f.n]

QueryChars == {"a", "_", " "}

Queries == SeqsUpTo(QueryChars, MaxQueryLen)

\* ------------------------------------------------------------ state
VARIABLES
  file,        \* the lines of the input file
  fileExists,  \* the input file is there and readable
  dirExists,   \* the datastore directory is there
  dir,         \* the shelve files of the directory: name (the count) -> trie
  datastores,  \* self.datastores
  pc,          \* "idle", "parsing" (inside parse_and_insert), "searched" (at
               \* the end of search), "dead" (an uncaught exception ended
               \* the process)
  fp,          \* lines of the file read by parse_and_insert
  count,       \* parse_and_insert's count
  temp_dict,   \* parse_and_insert's temp_dict
  handles,     \* shelves opened by search and not closed
  query,       \* the last search string
  result,      \* the last search: done, raised, result_set
  nPrepare,    \* calls of manage_datastore so far
  prep,        \* the last call of manage_datastore and how it ended
  fresh,       \* self.datastores is what this engine's completed build wrote
  nonblank,    \* non-blank lines the running or last build has processed
  batchLines,  \* non-blank lines inserted in temp_dict since the last flush
  covered,     \* shard name -> non-blank lines inserted in it
  whole,       \* the one trie of all the lines read, never flushed
  hist,        \* "built" (a build has completed), "rebuilding" (it is being
               \* built again), "removed" (its shards were then removed by
               \* hand), "again" (manage_datastore(False) has then returned),
               \* "none" (anything else)
  orig         \* dir and datastores as the first completed build left them

vars == <<file, fileExists, dirExists, dir, datastores, pc, fp, count,
          temp_dict, handles, query, result, nPrepare, prep, fresh, nonblank,
          batchLines, covered, whole, hist, orig>>

NoResult == [done |-> FALSE, raised |-> FALSE, lines |-> {}]
NoPrep == [force |-> FALSE, missing |-> FALSE, known |-> FALSE,
           outcome |-> "none"]
NoTrie == [dicts |-> {}, sets |-> <<>>]

Init ==
  /\ file \in Files
  /\ fileExists = TRUE
  /\ dirExists = FALSE
  /\ dir = <<>>
  /\ datastores = <<>>
  /\ pc = "idle"
  /\ fp = 0
  /\ count = 0
  /\ temp_dict = NoTrie
  /\ handles = {}
  /\ query = <<>>
  /\ result = NoResult
  /\ nPrepare = 0
  /\ prep = NoPrep
  /\ fresh = FALSE
  /\ nonblank = 0
  /\ batchLines = 0
  /\ covered = <<>>
  /\ whole = NoTrie
  /\ hist = "none"
  /\ orig = [dir |-> <<>>, datastores |-> <<>>]

\* ------------------------------------------------------------ helpers
Range(s) == {s[i] : i \in DOMAIN s}

\* the elements of a finite set of numbers in ascending order
RECURSIVE Sorted(_)
Sorted(S) ==
  IF S = {} THEN <<>>
  ELSE LET m == CHOOSE a \in S : \A b \in S : a <= b
       IN  <<m>> \o Sorted(S \ {m})

\* os.listdir(self.datastore_directory)
ListDir(d) == Sorted(DOMAIN d)

\* the function d without the keys in S
Without(d, S) == [k \in DOMAIN d \ S |-> d[k]]

\* `for k in temp_dict.keys(): file_db[k] = temp_dict[k]` on the shelf old:
\* the first-level entries of tmp replace those of old
ShelfWrite(old, tmp) ==
  LET ks == Keys(tmp, <<>>)
      keepD == {p \in old.dicts : p[1] \notin ks}
      keepS == {p \in DOMAIN old.sets : p[1] \notin ks}
  IN  [dicts |-> keepD \cup tmp.dicts,
       sets  |-> [p \in keepS \cup DOMAIN tmp.sets |->
                    IF p \in DOMAIN tmp.sets THEN tmp.sets[p] ELSE old.sets[p]]]

\* shelve.open(name): the shelf of that name, made empty when it is not there
Opened(d, name) == IF name \in DOMAIN d THEN d[name] ELSE NoTrie

\* the flush with temp_dict emptied before it is written
BatchFlushEmptied(d, stores, cnt, tmp) ==
  [dir |-> (cnt :> ShelfWrite(Opened(d, cnt), NoTrie)) @@ d,
   datastores |-> Append(stores, cnt)]

\* the flush of lines 118-127: temp_dict written to the shelf <count>.db
BatchFlush(d, stores, cnt, tmp) ==
  [dir |-> (cnt :> ShelfWrite(Opened(d, cnt), tmp)) @@ d,
   datastores |-> Append(stores, cnt)]

\* the last flush skipped when nothing was counted
FinalFlushIfAny(d, stores, cnt, tmp) ==
  IF cnt = 0 THEN [dir |-> d, datastores |-> stores]
  ELSE [dir |-> (cnt :> ShelfWrite(Opened(d, cnt), tmp)) @@ d,
        datastores |-> Append(stores, cnt)]

\* the flush of lines 140-145, after the loop
FinalFlush(d, stores, cnt, tmp) ==
  [dir |-> (cnt :> ShelfWrite(Opened(d, cnt), tmp)) @@ d,
   datastores |-> Append(stores, cnt)]

\* `if count and (count % 100) == 0`
FlushDue(cnt) == cnt # 0 /\ cnt % BatchSize = 0

\* the loop over the strings of one line: each string's substrings go into
\* the trie and count goes up by one per string
RECURSIVE InsertStrings(_, _, _, _)
InsertStrings(strings, line, t, cnt) ==
  IF strings = <<>> \/ t.err THEN [trie |-> t, count |-> cnt]
  ELSE LET t1 == make_trie(generate_substrings(Head(strings)), line, t)
       IN  IF t1.err THEN [trie |-> t1, count |-> cnt]
           ELSE InsertStrings(Tail(strings), line, t1, cnt + 1)

WithErr(t) == [dicts |-> t.dicts, sets |-> t.sets, err |-> FALSE]
Plain(t) == [dicts |-> t.dicts, sets |-> t.sets]

\* the forced rebuild without its `self.datastores = []`
AfterForceKept(listed) == listed

\* `self.datastores = []` of the forced rebuild
AfterForce(listed) == <<>>

\* `if not self.datastores`
NeedsBuild(stores) == stores = <<>>

\* the loop of search over self.datastores from position i: every shelf is
\* opened (and made, empty, when its file is gone), searched, and its lines
\* added to result_set; the TypeError of search_trie ends the loop
RECURSIVE SearchShards(_, _, _, _, _)
SearchShards(stores, i, d, search_str, acc) ==
  IF i > Len(stores) THEN [raised |-> FALSE, lines |-> acc, dir |-> d,
                           opened |-> Range(stores)]
  ELSE LET file_db == Opened(d, stores[i])
           d1 == (stores[i] :> file_db) @@ d
           r == search_trie(search_str, file_db)
       IN  IF r.raised
           THEN [raised |-> TRUE, lines |-> acc, dir |-> d1,
                 opened |-> {stores[j] : j \in 1..i}]
           ELSE SearchShards(stores, i + 1, d1, search_str, acc \cup r.lines)

\* ------------------------------------------------------------ actions
\* manage_datastore(force_rebuild) up to the open() of parse_and_insert
ManageDatastore(force_rebuild) ==
  LET listed == datastores \o ListDir(dir)
      stores == IF force_rebuild THEN AfterForce(listed) ELSE listed
      d == IF force_rebuild THEN Without(dir, Range(listed)) ELSE dir
      build == NeedsBuild(stores)
      call == [force |-> force_rebuild, missing |-> ~fileExists,
               known |-> listed # <<>>,
               outcome |-> IF ~build THEN "reused"
                           ELSE IF fileExists THEN "parsing" ELSE "IOError"]
  IN  /\ pc = "idle"
      /\ nPrepare < MaxPrepares
      /\ nPrepare' = nPrepare + 1
      /\ dirExists' = TRUE
      /\ dir' = d
      /\ datastores' = stores
      /\ pc' = IF ~build THEN "idle" ELSE IF fileExists THEN "parsing" ELSE "dead"
      /\ fp' = 0
      /\ count' = 0
      /\ temp_dict' = NoTrie
      /\ prep' = call
      /\ fresh' = FALSE
      /\ query' = <<>>
      /\ result' = NoResult
      /\ nonblank' = IF build THEN 0 ELSE nonblank
      /\ batchLines' = IF build THEN 0 ELSE batchLines
      /\ covered' = IF build THEN <<>> ELSE covered
      /\ whole' = IF build THEN NoTrie ELSE whole
      /\ hist' = IF hist = "removed" /\ ~force_rebuild /\ ~build THEN "again"
                 ELSE IF hist = "removed" /\ ~force_rebuild THEN "removed"
                 ELSE IF hist = "built" /\ ~build THEN "built"
                 ELSE IF hist = "built" /\ fileExists THEN "rebuilding"
                 ELSE "none"
      /\ UNCHANGED <<file, fileExists, handles, orig>>

\* one turn of `for line in fp`
ParseLine ==
  /\ pc = "parsing"
  /\ fp < FileLen(file)
  /\ fp' = fp + 1
  /\ LET line == Strip(FileLine(file, fp + 1))
     IN  IF line = <<>>
         THEN UNCHANGED <<dir, datastores, pc, count, temp_dict, prep,
                          nonblank, batchLines, covered, whole, hist>>
         ELSE LET due == FlushDue(count)
                  fl == IF due THEN BatchFlush(dir, datastores, count, temp_dict)
                        ELSE [dir |-> dir, datastores |-> datastores]
                  tmp == IF due THEN NoTrie ELSE temp_dict
                  strings == Split(line)
                  r == InsertStrings(strings, line, WithErr(tmp), count)
                  w == InsertStrings(strings, line, WithErr(whole), 0)
              IN  /\ dir' = fl.dir
                  /\ datastores' = fl.datastores
                  /\ temp_dict' = Plain(r.trie)
                  /\ count' = r.count
                  /\ pc' = IF r.trie.err THEN "dead" ELSE "parsing"
                  /\ prep' = IF r.trie.err
                             THEN [prep EXCEPT !.outcome = "AttributeError"]
                             ELSE prep
                  /\ hist' = IF r.trie.err THEN "none" ELSE hist
                  /\ nonblank' = nonblank + 1
                  /\ covered' = IF due THEN (count :> batchLines) @@ covered
                                ELSE covered
                  /\ batchLines' = IF due THEN 1 ELSE batchLines + 1
                  /\ whole' = Plain(w.trie)
  /\ UNCHANGED <<file, fileExists, dirExists, handles, query, result,
                 nPrepare, fresh, orig>>

\* the end of the file: the last flush, and manage_datastore returns
ParseEnd ==
  /\ pc = "parsing"
  /\ fp = FileLen(file)
  /\ LET fl == FinalFlush(dir, datastores, count, temp_dict)
     IN  /\ dir' = fl.dir
         /\ datastores' = fl.datastores
         /\ covered' = IF fl.datastores = datastores THEN covered
                       ELSE (count :> batchLines) @@ covered
         /\ orig' = IF hist = "none"
                    THEN [dir |-> fl.dir, datastores |-> fl.datastores]
                    ELSE orig
  /\ pc' = "idle"
  /\ prep' = [prep EXCEPT !.outcome = "built"]
  /\ fresh' = TRUE
  /\ hist' = IF hist = "removed" THEN "again" ELSE "built"
  /\ UNCHANGED <<file, fileExists, dirExists, fp, count, temp_dict, handles,
                 query, result, nPrepare, nonblank, batchLines, whole>>

\* search(search_str) up to its last line: the result is logged.  No shelf
\* is closed by the code, so every shelf opened is still open here.
Search(search_str) ==
  LET r == SearchShards(datastores, 1, dir, search_str, {})
  IN  /\ pc = "idle"
      /\ prep.outcome \in {"built", "reused"}
      /\ query' = search_str
      /\ result' = [done |-> TRUE, raised |-> r.raised, lines |-> r.lines]
      /\ dir' = r.dir
      /\ pc' = IF r.raised THEN "dead" ELSE "searched"
      /\ handles' = IF r.raised THEN {} ELSE handles \cup r.opened
      /\ hist' = IF hist \in {"built", "again"} THEN hist ELSE "none"
      /\ UNCHANGED <<file, fileExists, dirExists, datastores, fp, count,
                     temp_dict, nPrepare, prep, fresh, nonblank, batchLines,
                     covered, whole, orig>>

\* search returns to the prompt of the main loop.  Whether the shelves left
\* unreferenced have been finalised (and so closed) by then is the runtime's
\* choice: the code closes none.
SearchReturn ==
  /\ pc = "searched"
  /\ pc' = "idle"
  /\ query' = <<>>
  /\ result' = NoResult
  /\ \E finalised \in BOOLEAN : handles' = IF finalised THEN {} ELSE handles
  /\ UNCHANGED <<file, fileExists, dirExists, dir, datastores, fp, count,
                 temp_dict, nPrepare, prep, fresh, nonblank, batchLines,
                 covered, whole, hist, orig>>

\* every shard file is removed from the directory by hand (while a call of
\* manage_datastore can still follow)
RemoveShards ==
  /\ pc = "idle"
  /\ nPrepare < MaxPrepares
  /\ DOMAIN dir # {}
  /\ dir' = <<>>
  /\ fresh' = FALSE
  /\ hist' = IF hist = "built" THEN "removed" ELSE "none"
  /\ UNCHANGED <<file, fileExists, dirExists, datastores, pc, fp, count,
                 temp_dict, handles, query, result, nPrepare, prep, nonblank,
                 batchLines, covered, whole, orig>>

\* the input file is removed (while a call of manage_datastore, its only
\* reader, can still follow)
RemoveInput ==
  /\ pc = "idle"
  /\ nPrepare < MaxPrepares
  /\ fileExists
  /\ fileExists' = FALSE
  /\ hist' = "none"
  /\ UNCHANGED <<file, dirExists, dir, datastores, pc, fp, count, temp_dict,
                 handles, query, result, nPrepare, prep, fresh, nonblank,
                 batchLines, covered, whole, orig>>

\* the script is started again: ParseStore(file) in a new process
NewEngine ==
  /\ pc \in {"idle", "dead"}
  /\ nPrepare < MaxPrepares
  /\ nPrepare > 0
  /\ datastores' = <<>>
  /\ pc' = "idle"
  /\ handles' = {}
  /\ prep' = NoPrep
  /\ fresh' = FALSE
  /\ query' = <<>>
  /\ result' = NoResult
  /\ hist' = IF hist = "again" THEN "none" ELSE hist
  /\ UNCHANGED <<file, fileExists, dirExists, dir, fp, count, temp_dict,
                 nPrepare, nonblank, batchLines, covered, whole, orig>>

Next ==
  \/ \E force_rebuild \in BOOLEAN : ManageDatastore(force_rebuild)
  \/ ParseLine
  \/ ParseEnd
  \/ \E search_str \in Queries : Search(search_str)
  \/ SearchReturn
  \/ RemoveShards
  \/ RemoveInput
  \/ NewEngine

Spec == Init /\ [][Next]_vars

\* ------------------------------------------------------------ claims
\* what the claims speak of, said without the code's operators
FileLines(f) ==
  Range(f.pre) \cup Range(f.suf) \cup (IF f.n > 0 THEN {f.fill} ELSE {})

NonBlankLines(f) == {Strip(l) : l \in FileLines(f)} \ {<<>>}

Tokens(line) == Range(Split(line))

IsSubstring(s, t) ==
  \E i \in 1..(Len(t) - Len(s) + 1) : SubSeq(t, i, i + Len(s) - 1) = s

Matches(q, line) == \E t \in Tokens(line) : q # <<>> /\ IsSubstring(q, t)

AllTokens(f) == UNION {Tokens(l) : l \in NonBlankLines(f)}

\* q is longer than every token of the file, or has a character of no token
NoMatch(q, f) ==
  \/ \A t \in AllTokens(f) : Len(q) > Len(t)
  \/ \E i \in DOMAIN q : \A t \in AllTokens(f) : q[i] \notin Range(t)

\* the tries of the shards put together
UnionTrie(S) ==
  [dicts |-> UNION {t.dicts : t \in S},
   sets  |-> [p \in UNION {DOMAIN t.sets : t \in S} |->
                UNION {t.sets[p] : t \in {u \in S : p \in DOMAIN u.sets}}]]

RECURSIVE SumOver(_, _)
SumOver(f, S) ==
  IF S = {} THEN 0
  ELSE LET k == CHOOSE k \in S : TRUE IN f[k] + SumOver(f, S \ {k})

\* C1: after a completed full build, a search for any non-empty substring of
\* any token of a non-blank line returns a set that holds that line,
\* whichever shard the line went to.
C1_SubstringFound ==
  (fresh /\ result.done) =>
    \A line \in NonBlankLines(file) :
      Matches(query, line) => ~result.raised /\ line \in result.lines

\* C1 witness: in an index of two shards, the line of the token "_a", which
\* is in the first shard only, is found by the query "_a".
C1_Witness ==
  /\ fresh /\ result.done /\ Len(datastores) >= 2
  /\ query = <<"_", "a">>
  /\ <<"_", "a">> \in result.lines
  /\ <<"_", "_">> \notin DOMAIN dir[datastores[2]].sets

\* C2: on a built index, a query longer than every token, or with a character
\* of no token ("_" included), raises nothing and yields the empty set.
C2_NoMatchIsEmpty ==
  (fresh /\ result.done /\ NoMatch(query, file)) =>
    ~result.raised /\ result.lines = {}

\* C3: on a built index, the empty query yields the empty set.
C3_EmptyQueryIsEmpty ==
  (fresh /\ result.done /\ query = <<>>) =>
    ~result.raised /\ result.lines = {}

\* C4: a full build writes one shard per 100 non-blank lines and one for the
\* remainder, whatever the number of tokens of a line, and no shard covers
\* more than 100 lines.
C4_ShardPerHundredLines ==
  (fresh /\ nonblank > 0) =>
    /\ Cardinality(DOMAIN dir) = (nonblank + BatchSize - 1) \div BatchSize
    /\ \A name \in DOMAIN covered : covered[name] <= BatchSize

\* C5: after a completed build and the removal of every shard file by hand,
\* manage_datastore(False), on the same engine or a new one, builds afresh,
\* and every later search gives what it gave after the first build.
C5_RebuildAfterRemoval ==
  hist = "again" =>
    /\ prep.outcome = "built"
    /\ result.done =>
         LET r == SearchShards(orig.datastores, 1, orig.dir, query, {})
         IN  result.raised = r.raised /\ result.lines = r.lines

\* C6 as stated: with the input file missing, manage_datastore ends in a
\* fatal failure, whatever force_rebuild and the directory are.
C6_MissingInputFatal ==
  (prep.missing /\ prep.outcome # "none") =>
    prep.outcome = "IOError" /\ pc = "dead"

\* C6 as amended: with the input file missing, manage_datastore ends in a
\* fatal failure exactly when it has to build: force_rebuild is set, or no
\* shard is known after the directory is listed.  Otherwise it returns and
\* the shards there are used.
C6_MissingInputFatalOnBuild ==
  (prep.missing /\ prep.outcome # "none") =>
    IF prep.force \/ ~prep.known
    THEN prep.outcome = "IOError" /\ pc = "dead"
    ELSE prep.outcome = "reused"

\* C6 witness: a forced rebuild over existing shards with the input gone has
\* failed, the shards deleted.
C6_Witness ==
  /\ prep.missing /\ prep.force /\ prep.known
  /\ prep.outcome = "IOError" /\ pc = "dead"
  /\ DOMAIN dir = {}

\* C7 as stated: a full build of a file with no non-blank line writes no
\* shard.
C7_NoShardForEmptyFile ==
  (fresh /\ NonBlankLines(file) = {}) => DOMAIN dir = {}

\* C7 as amended: a full build of a file with no non-blank line writes one
\* shard, 0.db, with nothing in it: the last flush is unconditional.
C7_OneEmptyShard ==
  (fresh /\ NonBlankLines(file) = {}) =>
    DOMAIN dir = {0} /\ dir[0] = NoTrie /\ datastores = <<0>>

\* C7 witness: a file of one blank line has been built.
C7_Witness ==
  fresh /\ FileLen(file) = 1 /\ NonBlankLines(file) = {} /\ 0 \in DOMAIN dir

\* C8: after a completed build the shards' tries together are the one trie
\* of the whole file, every non-blank line is counted in exactly one shard,
\* and a search over the shards gives what a search of the one trie gives.
C8_ShardsEqualWhole ==
  fresh =>
    /\ UnionTrie({dir[name] : name \in Range(datastores)}) = whole
    /\ SumOver(covered, DOMAIN covered) = nonblank
    /\ DOMAIN covered = Range(datastores)
    /\ result.done =>
         LET w == search_trie(query, whole)
         IN  result.raised = w.raised /\ (~w.raised => result.lines = w.lines)

\* C8 witness: an index of two different shards has answered a query with
\* lines.
C8_Witness ==
  /\ fresh /\ result.done /\ result.lines # {}
  /\ Len(datastores) >= 2
  /\ dir[datastores[1]] # dir[datastores[2]]

\* C9: after any sequence of searches no shelf opened by search is open.
C9_NoHandleLeftOpen == pc = "idle" => handles = {}

\* C10: after a full build, a search for a non-empty query yields a result,
\* every element of it is a non-blank line of the file (stripped) with a
\* token that has the query in it, and the result of a query with a space in
\* it is empty.
C10_NoFalsePositive ==
  (fresh /\ result.done /\ query # <<>>) =>
    /\ ~result.raised
    /\ \A e \in result.lines :
         e \in NonBlankLines(file) /\ Matches(query, e)
    /\ " " \in Range(query) => result.lines = {}
====
